---- MODULE Spec2Model ----
(***************************************************************************)
(* Model of src/app.py, the HOL Hardware Verification Simulator: a script  *)
(* that reads a form of sub-circuits and components, binds each            *)
(* component's formula text, composes the circuit, analyses it, simulates  *)
(* the delays and builds a proof tree.                                     *)
(*                                                                         *)
(* Texts are sequences of one-character strings, so that str.split,        *)
(* str.replace and eval act on them as they do in the script.              *)
(***************************************************************************)
EXTENDS Integers, Sequences, FiniteSets

(***************************************************************************)
(* Characters and Python's str operations                                  *)
(***************************************************************************)
UpperCase ==
    {"A","B","C","D","E","F","G","H","I","J","K","L","M",
     "N","O","P","Q","R","S","T","U","V","W","X","Y","Z"}

LowerCase ==
    {"a","b","c","d","e","f","g","h","i","j","k","l","m",
     "n","o","p","q","r","s","t","u","v","w","x","y","z"}

Digits == {"0","1","2","3","4","5","6","7","8","9"}

IdentStart == UpperCase \cup LowerCase \cup {"_"}

IdentChar == IdentStart \cup Digits

Punct == {"(", ")", ",", "[", "]"}

\* str.split(sep) for a one-character separator: the pieces between separators.
RECURSIVE SplitFrom(_, _, _)
SplitFrom(s, sep, cur) ==
    IF s = <<>> THEN <<cur>>
    ELSE IF Head(s) = sep THEN <<cur>> \o SplitFrom(Tail(s), sep, <<>>)
    ELSE SplitFrom(Tail(s), sep, Append(cur, Head(s)))

Split(s, sep) == SplitFrom(s, sep, <<>>)

\* str.join over a sequence of texts.
RECURSIVE Join(_, _)
Join(sep, parts) ==
    IF parts = <<>> THEN <<>>
    ELSE IF Len(parts) = 1 THEN parts[1]
    ELSE parts[1] \o sep \o Join(sep, Tail(parts))

\* str.strip(): leading and trailing blanks removed.
RECURSIVE LStrip(_)
LStrip(s) == IF s # <<>> /\ Head(s) = " " THEN LStrip(Tail(s)) ELSE s

RECURSIVE RStrip(_)
RStrip(s) ==
    IF s # <<>> /\ s[Len(s)] = " " THEN RStrip(SubSeq(s, 1, Len(s) - 1)) ELSE s

Strip(s) == RStrip(LStrip(s))

\* str.replace(old, new): every non-overlapping occurrence, left to right.
\* Each step goes to the first occurrence and on from its end.
RECURSIVE Replace(_, _, _)
Replace(s, old, new) ==
    LET hits == {i \in 1..(Len(s) - Len(old) + 1) : SubSeq(s, i, i + Len(old) - 1) = old}
    IN  IF old = <<>> \/ hits = {} THEN s
        ELSE LET i == CHOOSE i \in hits : \A j \in hits : i <= j
             IN  SubSeq(s, 1, i - 1) \o new
                 \o Replace(SubSeq(s, i + Len(old), Len(s)), old, new)

\* f"var_map['{k}']"
VarMapRef(k) == <<"v","a","r","_","m","a","p","[","'">> \o k \o <<"'","]">>

(***************************************************************************)
(* eval(expr_str): Python's tokenizer and expression grammar, restricted   *)
(* to names, string and number literals, calls and subscripts.             *)
(***************************************************************************)
Tok(t, x) == [type |-> t, text |-> x]

\* First index >= i whose character is not in cs (Len(s)+1 when none).
RECURSIVE EndOfRun(_, _, _)
EndOfRun(s, i, cs) ==
    IF i <= Len(s) /\ s[i] \in cs THEN EndOfRun(s, i + 1, cs) ELSE i

\* Index of the next quote at or after i (0 when the literal is unterminated).
RECURSIVE NextQuote(_, _)
NextQuote(s, i) ==
    IF i > Len(s) THEN 0 ELSE IF s[i] = "'" THEN i ELSE NextQuote(s, i + 1)

RECURSIVE Tokenize(_, _)
Tokenize(s, i) ==
    IF i > Len(s) THEN <<>>
    ELSE IF s[i] = " " THEN Tokenize(s, i + 1)
    ELSE IF s[i] \in IdentStart THEN
        LET j == EndOfRun(s, i, IdentChar)
        IN  <<Tok("NAME", SubSeq(s, i, j - 1))>> \o Tokenize(s, j)
    ELSE IF s[i] \in Digits THEN
        LET j == EndOfRun(s, i, Digits)
        IN  IF j <= Len(s) /\ s[j] \in IdentStart
            THEN <<Tok("ERR", <<>>)>>
            ELSE IF j - i > 1 /\ s[i] = "0" /\ (\E n \in i..(j - 1) : s[n] # "0")
            THEN <<Tok("ERR", <<>>)>>
            ELSE <<Tok("NUM", SubSeq(s, i, j - 1))>> \o Tokenize(s, j)
    ELSE IF s[i] = "'" THEN
        LET j == NextQuote(s, i + 1)
        IN  IF j = 0
            THEN <<Tok("ERR", <<>>)>>
            ELSE <<Tok("STR", SubSeq(s, i + 1, j - 1))>> \o Tokenize(s, j + 1)
    ELSE IF s[i] \in Punct THEN <<Tok(s[i], <<>>)>> \o Tokenize(s, i + 1)
    ELSE <<Tok("ERR", <<>>)>>

\* Syntax tree nodes.  Call: args = <<callee>> \o arguments.
\* Subscript: args = <<value, index>>.
Ast(n, x, a) == [node |-> n, id |-> x, args |-> a]

NoAst == Ast("None", <<>>, <<>>)

Parsed(a, p) == [ok |-> TRUE, ast |-> a, pos |-> p]

ParseFail == [ok |-> FALSE, ast |-> NoAst, pos |-> 0]

TokType(ts, i) == IF i <= Len(ts) THEN ts[i].type ELSE "EOF"

RECURSIVE ParseExpr(_, _)
RECURSIVE ParseTrailers(_, _, _)
RECURSIVE ParseArgs(_, _, _)

\* primary: atom trailer*
ParseExpr(ts, i) ==
    IF TokType(ts, i) = "NAME" THEN ParseTrailers(ts, Ast("Name", ts[i].text, <<>>), i + 1)
    ELSE IF TokType(ts, i) = "STR" THEN ParseTrailers(ts, Ast("Str", ts[i].text, <<>>), i + 1)
    ELSE IF TokType(ts, i) = "NUM" THEN ParseTrailers(ts, Ast("Num", ts[i].text, <<>>), i + 1)
    ELSE ParseFail

\* trailer: "(" [arguments] ")" | "[" expression "]"
ParseTrailers(ts, a, i) ==
    IF TokType(ts, i) = "(" THEN
        LET r == ParseArgs(ts, <<>>, i + 1)
        IN  IF r.ok
            THEN ParseTrailers(ts, Ast("Call", <<>>, <<a>> \o r.ast.args), r.pos)
            ELSE ParseFail
    ELSE IF TokType(ts, i) = "[" THEN
        LET r == ParseExpr(ts, i + 1)
        IN  IF r.ok /\ TokType(ts, r.pos) = "]"
            THEN ParseTrailers(ts, Ast("Subscript", <<>>, <<a, r.ast>>), r.pos + 1)
            ELSE ParseFail
    ELSE Parsed(a, i)

\* arguments up to the closing parenthesis; a trailing comma is allowed.
ParseArgs(ts, acc, i) ==
    IF TokType(ts, i) = ")" THEN Parsed(Ast("Args", <<>>, acc), i + 1)
    ELSE
        LET r == ParseExpr(ts, i)
        IN  IF ~r.ok THEN ParseFail
            ELSE IF TokType(ts, r.pos) = ","
                 THEN ParseArgs(ts, Append(acc, r.ast), r.pos + 1)
            ELSE IF TokType(ts, r.pos) = ")"
                 THEN Parsed(Ast("Args", <<>>, Append(acc, r.ast)), r.pos + 1)
            ELSE ParseFail

\* compile(text, mode='eval'): the whole text must be one expression.
ParseText(s) ==
    LET ts == Tokenize(s, 1)
        r  == ParseExpr(ts, 1)
    IN  IF \E i \in 1..Len(ts) : ts[i].type = "ERR" THEN ParseFail
        ELSE IF r.ok /\ r.pos = Len(ts) + 1 THEN r
        ELSE ParseFail

(***************************************************************************)
(* Values: sympy Boolean expressions and the other Python objects eval can *)
(* meet.  kind is Var, And, Or, Not, True, False for expressions; func,    *)
(* dict, str, int, object for the rest.                                    *)
(***************************************************************************)
Val(k, x, a) == [kind |-> k, name |-> x, args |-> a]

Var(x) == Val("Var", x, <<>>)

TrueExpr == Val("True", <<>>, <<>>)

FalseExpr == Val("False", <<>>, <<>>)

NoneVal == Val("None", <<>>, <<>>)

ExprKinds == {"Var", "And", "Or", "Not", "True", "False"}

\* Python compares str by code point; these are the characters of names.
CodeOrder ==
    <<"0","1","2","3","4","5","6","7","8","9",
      "A","B","C","D","E","F","G","H","I","J","K","L","M",
      "N","O","P","Q","R","S","T","U","V","W","X","Y","Z","_",
      "a","b","c","d","e","f","g","h","i","j","k","l","m",
      "n","o","p","q","r","s","t","u","v","w","x","y","z">>

Ord(c) == CHOOSE n \in 1..Len(CodeOrder) : CodeOrder[n] = c

RECURSIVE StrLess(_, _)
StrLess(a, b) ==
    IF b = <<>> THEN FALSE
    ELSE IF a = <<>> THEN TRUE
    ELSE IF Head(a) = Head(b) THEN StrLess(Tail(a), Tail(b))
    ELSE Ord(Head(a)) < Ord(Head(b))

RECURSIVE NodeCount(_)
RECURSIVE NodeCountSeq(_)
NodeCount(e) == 1 + NodeCountSeq(e.args)

NodeCountSeq(es) ==
    IF es = <<>> THEN 0 ELSE NodeCount(Head(es)) + NodeCountSeq(Tail(es))

\* sympy's default_sort_key: Symbol before And before Not before Or, then the
\* name (Symbol) or the number of arguments and the arguments' keys.
ClassRank(e) ==
    IF e.kind = "Var" THEN 0
    ELSE IF e.kind = "And" THEN 1
    ELSE IF e.kind = "Not" THEN 2
    ELSE 3

RECURSIVE KeyLess(_, _)
RECURSIVE KeyLessSeq(_, _)
KeyLess(a, b) ==
    IF ClassRank(a) # ClassRank(b) THEN ClassRank(a) < ClassRank(b)
    ELSE IF a.kind = "Var" THEN StrLess(a.name, b.name)
    ELSE IF Len(a.args) # Len(b.args) THEN Len(a.args) < Len(b.args)
    ELSE KeyLessSeq(a.args, b.args)

KeyLessSeq(as, bs) ==
    IF as = <<>> THEN FALSE
    ELSE IF Head(as) = Head(bs) THEN KeyLessSeq(Tail(as), Tail(bs))
    ELSE KeyLess(Head(as), Head(bs))

\* sympy's ordered(): by number of nodes, ties by default_sort_key.
ArgLess(a, b) ==
    IF NodeCount(a) # NodeCount(b) THEN NodeCount(a) < NodeCount(b)
    ELSE KeyLess(a, b)

\* The elements of a finite set of expressions, in ordered() order.
RECURSIVE Ordered(_)
Ordered(S) ==
    IF S = {} THEN <<>>
    ELSE LET m == CHOOSE x \in S : \A y \in S \ {x} : ArgLess(x, y)
         IN  <<m>> \o Ordered(S \ {m})

\* LatticeOp._new_args_filter: nested applications of the same operator are
\* flattened and the identity dropped.
RECURSIVE Flatten(_, _, _)
Flatten(args, op, identity) ==
    IF args = <<>> THEN <<>>
    ELSE LET x == Head(args)
             rest == Flatten(Tail(args), op, identity)
         IN  IF x.kind = identity THEN rest
             ELSE IF x.kind = op THEN x.args \o rest
             ELSE <<x>> \o rest

Range(s) == {s[n] : n \in DOMAIN s}

\* LatticeOp.__new__: a zero among the arguments gives the zero; no argument
\* left gives the identity; one argument left is returned itself; otherwise
\* the arguments are kept as a set, in ordered() order.
Lattice(op, args, identity, zero) ==
    LET flat == Range(Flatten(args, op, identity))
    IN  IF \E x \in flat : x.kind = zero THEN Val(zero, <<>>, <<>>)
        ELSE IF flat = {} THEN Val(identity, <<>>, <<>>)
        ELSE IF Cardinality(flat) = 1 THEN CHOOSE x \in flat : TRUE
        ELSE Val(op, <<>>, Ordered(flat))

\* sympy's And(*args), Or(*args), Not(arg) on Boolean arguments.
SymAnd(args) == Lattice("And", args, "True", "False")

SymOr(args) == Lattice("Or", args, "False", "True")

SymNot(x) ==
    IF x.kind = "True" THEN FalseExpr
    ELSE IF x.kind = "False" THEN TrueExpr
    ELSE IF x.kind = "Not" THEN x.args[1]
    ELSE Val("Not", <<>>, <<x>>)

(***************************************************************************)
(* eval(expr_str) at line 75: the names it can see are the script's        *)
(* globals at that point.  env.names are the keys of var_map, env.last is  *)
(* the key the loop of line 73 visited last (k, and v its symbol), and     *)
(* env.ints the integer globals.                                           *)
(***************************************************************************)
Res(e, v) == [err |-> e, val |-> v]

Ok(v) == Res("none", v)

Raise(e) == Res(e, NoneVal)

ConstructorNames == {<<"A","n","d">>, <<"O","r">>, <<"N","o","t">>}

StrGlobals ==
    {<<"k">>, <<"s","c","_","n","a","m","e">>, <<"c","o","m","p","_","n","a","m","e">>,
     <<"o","u","t","p","u","t","_","v","a","r">>, <<"e","x","p","r">>,
     <<"e","x","p","r","_","s","t","r">>, <<"c","n","a","m","e">>,
     <<"f","u","l","l","_","c","i","r","c","u","i","t","_","e","x","p","r">>}

ObjGlobals ==
    {<<"s","t">>, <<"s","y","m","b","o","l","s">>, <<"g","r","a","p","h","v","i","z">>,
     <<"p","d">>, <<"c","o","m","p","o","n","e","n","t","s">>,
     <<"s","u","b","c","i","r","c","u","i","t","s">>, <<"c","o","m","p","s">>,
     <<"c","o","m","p">>, <<"s","y","m","s">>, <<"a","l","l","_","v","a","r","s">>,
     <<"i","n","p","u","t","_","v","a","r","s">>,
     <<"e","v","a","l","u","a","t","e","d","_","e","x","p","r","s">>,
     <<"t","e","m","p","o","r","a","l","_","i","n","f","o">>,
     <<"t","o","p","_","l","e","v","e","l","_","e","x","p","r","s">>,
     <<"c","o","m","p","o","n","e","n","t","s","_","d","i","c","t">>,
     <<"s","i","m","p","l","i","f","y","_","l","o","g","i","c">>,
     <<"s","a","t","i","s","f","i","a","b","l","e">>}

Lookup(id, env) ==
    IF id \in ConstructorNames THEN Ok(Val("func", id, <<>>))
    ELSE IF id = <<"v","a","r","_","m","a","p">> THEN Ok(Val("dict", id, <<>>))
    ELSE IF id = <<"v">> THEN Ok(Var(env.last))
    ELSE IF id \in DOMAIN env.ints THEN Ok(Val("int", <<env.ints[id]>>, <<>>))
    ELSE IF id \in StrGlobals THEN Ok(Val("str", <<>>, <<>>))
    ELSE IF id \in ObjGlobals THEN Ok(Val("object", id, <<>>))
    ELSE Raise("NameError")

\* A number literal's value as far as sympy tells values apart: 0, 1, other.
NumValue(text) ==
    IF \A n \in DOMAIN text : text[n] = "0" THEN 0
    ELSE IF text = <<"1">> THEN 1
    ELSE 2

\* sympy's conversion of a constructor argument to a Boolean.
AsBoolean(v) ==
    IF v.kind \in ExprKinds THEN Ok(v)
    ELSE IF v.kind = "int" THEN
        IF v.name[1] = 1 THEN Ok(TrueExpr)
        ELSE IF v.name[1] = 0 THEN Ok(FalseExpr)
        ELSE Raise("TypeError")
    ELSE Raise("SympifyError")

\* The first error among results, in order; "none" when there is none.
RECURSIVE FirstErr(_)
FirstErr(rs) ==
    IF rs = <<>> THEN "none"
    ELSE IF Head(rs).err # "none" THEN Head(rs).err
    ELSE FirstErr(Tail(rs))

\* callee(*args)
Apply(f, args) ==
    IF f.kind # "func" THEN Raise("TypeError")
    ELSE LET bs == [n \in DOMAIN args |-> AsBoolean(args[n])]
             vs == [n \in DOMAIN args |-> bs[n].val]
         IN  IF f.name = <<"N","o","t">> THEN
                 IF Len(args) # 1 THEN Raise("TypeError")
                 ELSE IF bs[1].err # "none" THEN Raise(bs[1].err)
                 ELSE Ok(SymNot(vs[1]))
             ELSE IF FirstErr(bs) # "none" THEN Raise(FirstErr(bs))
             ELSE IF f.name = <<"A","n","d">> THEN Ok(SymAnd(vs))
             ELSE Ok(SymOr(vs))

\* value[index]
GetItem(v, ix, env) ==
    IF v.kind = "dict" THEN
        IF ix.kind = "str" /\ ix.name \in env.names THEN Ok(Var(ix.name))
        ELSE Raise("KeyError")
    ELSE Raise("TypeError")

RECURSIVE EvalAst(_, _)
EvalAst(a, env) ==
    IF a.node = "Name" THEN Lookup(a.id, env)
    ELSE IF a.node = "Str" THEN Ok(Val("str", a.id, <<>>))
    ELSE IF a.node = "Num" THEN Ok(Val("int", <<NumValue(a.id)>>, <<>>))
    ELSE LET rs == [n \in DOMAIN a.args |-> EvalAst(a.args[n], env)]
         IN  IF FirstErr(rs) # "none" THEN Raise(FirstErr(rs))
             ELSE IF a.node = "Call"
                  THEN Apply(rs[1].val, [n \in 1..(Len(rs) - 1) |-> rs[n + 1].val])
             ELSE GetItem(rs[1].val, rs[2].val, env)

\* eval(expr_str): compile, then evaluate.  The script appends the value to
\* evaluated_exprs whatever it is; only a Boolean expression can go on.
Eval(text, env) ==
    LET p == ParseText(text)
    IN  IF ~p.ok THEN Raise("SyntaxError") ELSE EvalAst(p.ast, env)

(***************************************************************************)
(* Truth values of expressions.  An assignment is the set of the names     *)
(* that are true.                                                          *)
(***************************************************************************)
RECURSIVE Atoms(_)
Atoms(e) ==
    IF e.kind = "Var" THEN {e.name}
    ELSE UNION {Atoms(e.args[n]) : n \in DOMAIN e.args}

RECURSIVE Holds(_, _)
Holds(e, m) ==
    IF e.kind = "Var" THEN e.name \in m
    ELSE IF e.kind = "True" THEN TRUE
    ELSE IF e.kind = "False" THEN FALSE
    ELSE IF e.kind = "Not" THEN ~Holds(e.args[1], m)
    ELSE IF e.kind = "And" THEN \A n \in DOMAIN e.args : Holds(e.args[n], m)
    ELSE \E n \in DOMAIN e.args : Holds(e.args[n], m)

\* The names of a finite set, in Python's str order.
RECURSIVE SortNames(_)
SortNames(S) ==
    IF S = {} THEN <<>>
    ELSE LET m == CHOOSE x \in S : \A y \in S \ {x} : StrLess(x, y)
         IN  <<m>> \o SortNames(S \ {m})

(***************************************************************************)
(* satisfiable(circuit_logic), line 84: a sympy call.  Its result is False *)
(* or a model, a dict from each symbol of the expression to a truth value  *)
(* ({true: true} for the constant true).  The search is the exhaustive one *)
(* over the expression's symbols.                                          *)
(***************************************************************************)
RECURSIVE Search(_, _, _)
Search(e, names, m) ==
    IF names = <<>> THEN (IF Holds(e, m) THEN <<m>> ELSE <<>>)
    ELSE LET r == Search(e, Tail(names), m \cup {Head(names)})
         IN  IF r # <<>> THEN r ELSE Search(e, Tail(names), m)

satisfiable(e) ==
    LET r == Search(e, SortNames(Atoms(e)), {})
    IN  IF r = <<>> THEN [found |-> FALSE, model |-> <<>>]
        ELSE IF e.kind = "True" THEN [found |-> TRUE, model |-> [k \in {TrueExpr} |-> TRUE]]
        ELSE [found |-> TRUE, model |-> [k \in {Var(x) : x \in Atoms(e)} |-> k.name \in r[1]]]

\* bool(sat): False and the empty dict are falsy.
Truthy(sat) == sat.found /\ DOMAIN sat.model # {}

(***************************************************************************)
(* simplify_logic(circuit_logic, form='dnf'), line 80: a sympy call, made  *)
(* without force=True.                                                     *)
(***************************************************************************)
\* sympy's is_literal
IsLiteral(e) ==
    e.kind \in {"Var", "True", "False"} \/ (e.kind = "Not" /\ e.args[1].kind = "Var")

IsConjunction(e) ==
    IsLiteral(e) \/ (e.kind = "And" /\ \A n \in DOMAIN e.args : IsLiteral(e.args[n]))

\* sympy's is_dnf
is_dnf(e) ==
    IsConjunction(e) \/ (e.kind = "Or" /\ \A n \in DOMAIN e.args : IsConjunction(e.args[n]))

\* The limit on the number of variables that force=False keeps.
SimplifyLimit == 8

\* One conjunction of literals per satisfying row of the truth table.
Minterm(names, m) ==
    SymAnd([n \in DOMAIN names |->
              IF names[n] \in m THEN Var(names[n]) ELSE SymNot(Var(names[n]))])

\* The sum of products of a truth table (sympy goes on to minimise it; the
\* result has the same truth table and the same normal form).
SOPform(e) ==
    LET names == SortNames(Atoms(e))
        rows  == {m \in SUBSET Atoms(e) : Holds(e, m)}
    IN  IF rows = {} THEN FalseExpr
        ELSE IF rows = SUBSET Atoms(e) THEN TrueExpr
        ELSE LET terms == {Minterm(names, m) : m \in rows}
             IN  IF Cardinality(terms) = 1 THEN CHOOSE t \in terms : TRUE
                 ELSE Val("Or", <<>>, Ordered(terms))

simplify_logic(e) ==
    IF is_dnf(e) /\ \A n \in DOMAIN e.args : IsLiteral(e.args[n]) THEN e
    ELSE IF e.kind \notin {"And", "Or", "Not"} THEN e
    ELSE IF Cardinality(Atoms(e)) > SimplifyLimit THEN e
    ELSE SOPform(e)

(***************************************************************************)
(* str(expr) and describe_expr, lines 107-115                              *)
(***************************************************************************)
RECURSIVE StrExpr(_)
RECURSIVE StrArgs(_, _)

\* sympy's printer: an And or Or operand is parenthesised.
StrOperand(e) ==
    IF e.kind \in {"And", "Or"} THEN <<"(">> \o StrExpr(e) \o <<")">> ELSE StrExpr(e)

StrArgs(es, sep) ==
    IF es = <<>> THEN <<>>
    ELSE IF Len(es) = 1 THEN StrOperand(es[1])
    ELSE StrOperand(es[1]) \o sep \o StrArgs(Tail(es), sep)

StrExpr(e) ==
    IF e.kind = "Var" THEN e.name
    ELSE IF e.kind = "True" THEN <<"T","r","u","e">>
    ELSE IF e.kind = "False" THEN <<"F","a","l","s","e">>
    ELSE IF e.kind = "Not" THEN <<"~">> \o StrOperand(e.args[1])
    ELSE IF e.kind = "And" THEN StrArgs(e.args, <<" ","&"," ">>)
    ELSE StrArgs(e.args, <<" ","|"," ">>)

\* str(expr.args): the tuple of the operands.
StrTuple(es) ==
    <<"(">> \o Join(<<","," ">>, [n \in DOMAIN es |-> StrExpr(es[n])])
            \o (IF Len(es) = 1 THEN <<",",")">> ELSE <<")">>)

describe_expr(e) ==
    IF e.kind = "And"
    THEN <<"A","N","D"," ","c","o","m","b","i","n","e","s",":"," ">> \o StrTuple(e.args)
    ELSE IF e.kind = "Or"
    THEN <<"O","R"," ","c","o","m","b","i","n","e","s",":"," ">> \o StrTuple(e.args)
    ELSE IF e.kind = "Not"
    THEN <<"N","O","T"," ","o","f",":"," ">> \o StrExpr(e.args[1])
    ELSE <<"P","r","i","m","i","t","i","v","e"," ","o","u","t","p","u","t",":"," ">>
         \o StrExpr(e)

(***************************************************************************)
(* build_proof_tree_clickable, lines 117-133.  st carries what the calls   *)
(* share: counter (the cell of the default argument counter=[0]),          *)
(* explanations (the dict node_explanations), and the graph being built.   *)
(***************************************************************************)
DigitChars == <<"0","1","2","3","4","5","6","7","8","9">>

\* str(n) for n >= 0
RECURSIVE IntStr(_)
IntStr(n) ==
    IF n < 10 THEN <<DigitChars[n + 1]>>
    ELSE IntStr(n \div 10) \o <<DigitChars[(n % 10) + 1]>>

\* f"n{counter[0]}"
NodeId(n) == <<"n">> \o IntStr(n)

\* A str or None in a condition; None is written <<>>.
NoParent == <<>>

\* HasParent as it would be with the counter's integers for ids: 0 is falsy.
HasParentInt(parent) == parent # <<>> /\ parent # NodeId(0)

\* if parent:
HasParent(parent) == parent # <<>>

DictPut(d, k, v) == [x \in DOMAIN d \cup {k} |-> IF x = k THEN v ELSE d[x]]

RECURSIVE build_proof_tree_clickable(_, _, _)
RECURSIVE BuildArgs(_, _, _)
build_proof_tree_clickable(expr, parent, st) ==
    LET node_id == NodeId(st.counter)
        explanation == describe_expr(expr)
        s1 == [counter |-> st.counter + 1,
               explanations |-> DictPut(st.explanations, node_id, explanation),
               nodes |-> Append(st.nodes, [id |-> node_id, label |-> StrExpr(expr),
                                          URL |-> <<"#">> \o node_id,
                                          tooltip |-> explanation]),
               edges |-> IF HasParent(parent)
                         THEN Append(st.edges, <<parent, node_id>>)
                         ELSE st.edges]
    IN  IF expr.kind \in {"And", "Or"} THEN BuildArgs(expr.args, node_id, s1)
        ELSE IF expr.kind = "Not" THEN build_proof_tree_clickable(expr.args[1], node_id, s1)
        ELSE s1

\* for arg in expr.args: build_proof_tree_clickable(arg, node_id, counter, dot)
BuildArgs(args, node_id, st) ==
    IF args = <<>> THEN st
    ELSE BuildArgs(Tail(args), node_id, build_proof_tree_clickable(Head(args), node_id, st))

\* A call with only the expression argument: a new Digraph, no parent, and
\* the default counter and the enclosing node_explanations as they stand.
CallBuild(expr, cnt, expl) ==
    build_proof_tree_clickable(expr, NoParent,
        [counter |-> cnt, explanations |-> expl, nodes |-> <<>>, edges |-> <<>>])

(***************************************************************************)
(* The script's state                                                      *)
(***************************************************************************)
VARIABLES
    form,               \* the widgets' values: the sub-circuits as entered
    pc,                 \* where the script is
    subcircuits,        \* line 17: dict sc_name -> dict comp_name -> component
    full_circuit_expr,  \* line 49
    all_vars,           \* line 58
    var_map,            \* line 65: the keys, in the dict's iteration order
    expr_strs,          \* the texts handed to eval at line 75
    evaluated_exprs,    \* line 68
    temporal_info,      \* line 69: dict output -> delay
    circuit_logic,      \* line 79
    simplified,         \* line 80
    sat,                \* line 84
    sim_table,          \* line 93
    counter,            \* line 117: the cell of the default argument counter=[0]
    node_explanations,  \* line 105
    builds,             \* the graphs build_proof_tree_clickable has returned
    shown,              \* the results rendered on the page
    error               \* the exception that ended the run, if any

vars ==
    <<form, pc, subcircuits, full_circuit_expr, all_vars, var_map, expr_strs,
      evaluated_exprs, temporal_info, circuit_logic, simplified, sat, sim_table,
      counter, node_explanations, builds, shown, error>>

\* A dict keeps its keys in insertion order; assigning to a key it holds
\* replaces the value in place.
OPut(d, k, v) ==
    IF \E n \in DOMAIN d : d[n].key = k
    THEN [n \in DOMAIN d |-> IF d[n].key = k THEN [key |-> k, value |-> v] ELSE d[n]]
    ELSE Append(d, [key |-> k, value |-> v])

RECURSIVE Concat(_)
Concat(ss) == IF ss = <<>> THEN <<>> ELSE Head(ss) \o Concat(Tail(ss))

\* for comps in subcircuits.values(): for comp in comps.values()
CompsOf(scs) ==
    Concat([n \in DOMAIN scs |->
              [m \in DOMAIN scs[n].value |-> scs[n].value[m].value]])

\* Lines 21-28: one sub-circuit's components_dict.
RECURSIVE ComponentsDict(_, _)
ComponentsDict(entries, d) ==
    IF entries = <<>> THEN d
    ELSE LET c == Head(entries)
         IN  ComponentsDict(Tail(entries),
                 OPut(d, c.comp_name,
                      [inputs |-> Split(c.inputs, ","), output |-> c.output,
                       expr |-> c.expr, delay |-> c.delay]))

\* Lines 17-29.
RECURSIVE SubCircuitsDict(_, _)
SubCircuitsDict(entries, d) ==
    IF entries = <<>> THEN d
    ELSE LET sc == Head(entries)
         IN  SubCircuitsDict(Tail(entries),
                 OPut(d, sc.sc_name, ComponentsDict(sc.comps, <<>>)))

\* comp['expr'].split('=')[1].strip(), lines 47 and 72
HasRhs(expr) == Len(Split(expr, "=")) >= 2

Rhs(expr) == Strip(Split(expr, "=")[2])

\* Lines 73-74: one replace per key of var_map, in the dict's order.
RECURSIVE Substitute(_, _)
Substitute(text, keys) ==
    IF keys = <<>> THEN text
    ELSE Substitute(Replace(text, Head(keys), VarMapRef(Head(keys))), Tail(keys))

ExprStr(comp, keys) == Substitute(Rhs(comp.expr), keys)

\* Lines 58-62.
AllVars(comps) ==
    UNION {Range(comps[n].inputs) \cup {comps[n].output} : n \in DOMAIN comps}

\* The integer globals left by the loops of lines 18-28.
IntGlobals(f) ==
    LET last == f[Len(f)]
    IN  [x \in {<<"i">>, <<"j">>, <<"d","e","l","a","y">>,
                <<"n","u","m","_","s","u","b","c","i","r","c","u","i","t","s">>,
                <<"n","u","m","_","c","o","m","p","o","n","e","n","t","s">>} |->
           IF x \in {<<"i">>, <<"n","u","m","_","s","u","b","c","i","r","c","u","i","t","s">>}
           THEN Len(f)
           ELSE IF x = <<"d","e","l","a","y">> THEN last.comps[Len(last.comps)].delay
           ELSE Len(last.comps)]

\* Lines 70-76: the loop stops at the first formula whose eval raises.
RECURSIVE EvalLoop(_, _, _, _)
EvalLoop(comps, keys, env, acc) ==
    IF comps = <<>> THEN acc
    ELSE LET c == Head(comps)
             text == ExprStr(c, keys)
             r == Eval(text, env)
         IN  IF r.err # "none"
             THEN [acc EXCEPT !.strs = Append(@, text), !.err = r.err]
             ELSE EvalLoop(Tail(comps), keys, env,
                      [strs |-> Append(acc.strs, text),
                       exprs |-> Append(acc.exprs, r.val),
                       tinfo |-> OPut(acc.tinfo, c.output, c.delay),
                       err |-> "none"])

\* ComposeLogic with only the first component's expression composed.
ComposeFirst(exprs) ==
    LET b == AsBoolean(exprs[1])
    IN  IF b.err # "none" THEN Raise(b.err) ELSE Ok(SymAnd(<<b.val>>))

\* Line 79: And(*evaluated_exprs).
ComposeLogic(exprs) ==
    LET bs == [n \in DOMAIN exprs |-> AsBoolean(exprs[n])]
    IN  IF FirstErr(bs) # "none" THEN Raise(FirstErr(bs))
        ELSE Ok(SymAnd([n \in DOMAIN bs |-> bs[n].val]))

\* Line 92
t_steps == 3

\* list[t] = 1 for an int t: a negative index counts from the end.
InRange(t) == -t_steps <= t /\ t < t_steps

ListIndex(t) == IF t < 0 THEN t + t_steps + 1 ELSE t + 1

\* FillRow with the loop started one step late, range(delay + 1, t_steps).
FillRowLate(row, delay) ==
    [n \in 1..t_steps |->
        IF \E t \in (delay + 1)..(t_steps - 1) : ListIndex(t) = n THEN 1 ELSE row[n]]

\* Lines 95-96 for one output: for t in range(delay, t_steps): row[t] = 1
FillRow(row, delay) ==
    [n \in 1..t_steps |->
        IF \E t \in delay..(t_steps - 1) : ListIndex(t) = n THEN 1 ELSE row[n]]

\* Lines 94-96: the outputs of temporal_info in the dict's order; the first
\* index out of range raises IndexError.
RECURSIVE FillTable(_, _)
FillTable(tinfo, table) ==
    IF tinfo = <<>> THEN Res("none", table)
    ELSE LET out == Head(tinfo).key
             delay == Head(tinfo).value
         IN  IF delay < t_steps /\ ~InRange(delay) THEN Res("IndexError", table)
             ELSE FillTable(Tail(tinfo),
                      [table EXCEPT ![out] = FillRow(table[out], delay)])

\* Lines 93-96.
Simulate(names, tinfo) ==
    FillTable(tinfo, [x \in names |-> [n \in 1..t_steps |-> 0]])

NoSat == [found |-> FALSE, model |-> <<>>]

NoError == [kind |-> "none", stage |-> "none"]

\* What lines 56-147 leave behind: the script's variables, the results
\* rendered so far, and the exception that ended the try block, if any.
Started(names, keys) ==
    [all_vars |-> names, var_map |-> keys, expr_strs |-> <<>>,
     evaluated_exprs |-> <<>>, temporal_info |-> <<>>,
     circuit_logic |-> NoneVal, simplified |-> NoneVal, sat |-> NoSat,
     sim_table |-> <<>>, counter |-> 0, node_explanations |-> <<>>,
     builds |-> <<>>, shown |-> {}, error |-> NoError]

Failed(r, kind, stage) == [r EXCEPT !.error = [kind |-> kind, stage |-> stage]]

\* Lines 64-76.  symbols() at line 64 refuses an empty name.
Bound(r, loop) ==
    IF loop.err # "none"
    THEN Failed([r EXCEPT !.expr_strs = loop.strs, !.evaluated_exprs = loop.exprs,
                          !.temporal_info = loop.tinfo], loop.err, "bind")
    ELSE [r EXCEPT !.expr_strs = loop.strs, !.evaluated_exprs = loop.exprs,
                   !.temporal_info = loop.tinfo]

BindAll(f, comps, r) ==
    IF <<>> \in r.all_vars
    THEN Failed([r EXCEPT !.var_map = <<>>], "ValueError", "symbols")
    ELSE Bound(r, EvalLoop(comps, r.var_map,
                   [names |-> r.all_vars, last |-> r.var_map[Len(r.var_map)],
                    ints |-> IntGlobals(f)],
                   [strs |-> <<>>, exprs |-> <<>>, tinfo |-> <<>>, err |-> "none"]))

\* Lines 79-88.
Analysed(r, logic) ==
    IF logic.err # "none" THEN Failed(r, logic.err, "compose")
    ELSE [r EXCEPT !.circuit_logic = logic.val,
                   !.simplified = simplify_logic(logic.val),
                   !.sat = satisfiable(logic.val),
                   !.shown = {"simplified", "sat"}]

Analyse(r) ==
    IF r.error # NoError THEN r ELSE Analysed(r, ComposeLogic(r.evaluated_exprs))

\* Lines 92-97.
Simulated(r, table) ==
    IF table.err # "none" THEN Failed(r, table.err, "simulate")
    ELSE [r EXCEPT !.sim_table = table.val, !.shown = @ \cup {"sim_table"}]

SimulateRun(r) ==
    IF r.error # NoError THEN r ELSE Simulated(r, Simulate(r.all_vars, r.temporal_info))

\* Lines 105-140: node_explanations = {}, the def with its fresh default
\* counter=[0], and the one call of line 135.
Proved(r, tree) ==
    [r EXCEPT !.counter = tree.counter,
              !.node_explanations = tree.explanations,
              !.builds = <<[nodes |-> tree.nodes, edges |-> tree.edges]>>,
              !.shown = @ \cup {"proof_tree"}]

ProofTree(r) ==
    IF r.error # NoError THEN r ELSE Proved(r, CallBuild(r.circuit_logic, 0, <<>>))

\* Lines 56-147, with keys the iteration order of the set all_vars.
Run(f, scs, keys) ==
    ProofTree(SimulateRun(Analyse(
        BindAll(f, CompsOf(scs), Started(AllVars(CompsOf(scs)), keys)))))

(***************************************************************************)
(* The forms the model fills in.  A component entry holds the values of    *)
(* the widgets of lines 23-27.                                             *)
(***************************************************************************)
Entry(name, def, delay) ==
    [comp_name |-> name, inputs |-> def.inputs, output |-> def.output,
     expr |-> def.expr, delay |-> delay]

SubCircuit(name, comps) == [sc_name |-> name, comps |-> comps]

\* f"{output_var} = ..." as line 26 writes the default.
Formula(out, rhs) == out \o <<" ","="," ">> \o rhs

CallText(fn, args) == fn \o <<"(">> \o Join(<<",">>, args) \o <<")">>

sAnd == <<"A","n","d">>
sOr  == <<"O","r">>
sNot == <<"N","o","t">>

Def(ins, out, expr) == [inputs |-> Join(<<",">>, ins), output |-> out, expr |-> expr]

\* The widgets' defaults for component 1 of sub-circuit 1 (lines 23-26).
DefaultDef ==
    Def(<<<<"A">>, <<"B">>>>, <<"Y","1","1">>,
        Formula(<<"Y","1","1">>, CallText(sAnd, <<<<"A">>, <<"B">>>>)))

\* Y1 = Or(B,C)
OrDef ==
    Def(<<<<"B">>, <<"C">>>>, <<"Y","1">>,
        Formula(<<"Y","1">>, CallText(sOr, <<<<"B">>, <<"C">>>>)))

\* Y2 = Not(B)
NotDef ==
    Def(<<<<"B">>>>, <<"Y","2">>, Formula(<<"Y","2">>, CallText(sNot, <<<<"B">>>>)))

\* Y1 = Or(B,D), D declared nowhere
UndeclaredDef ==
    Def(<<<<"B">>>>, <<"Y","1">>,
        Formula(<<"Y","1">>, CallText(sOr, <<<<"B">>, <<"D">>>>)))

\* Y1 = Or(B,v), v declared nowhere
LoopVarDef ==
    Def(<<<<"B">>>>, <<"Y","1">>,
        Formula(<<"Y","1">>, CallText(sOr, <<<<"B">>, <<"v">>>>)))

\* Y2 = Not(B) with a second input a
LowerCaseDef ==
    Def(<<<<"B">>, <<"a">>>>, <<"Y","2">>,
        Formula(<<"Y","2">>, CallText(sNot, <<<<"B">>>>)))

\* Y2 = Or(Not(C),C)
NestedDef ==
    Def(<<<<"C">>>>, <<"Y","2">>,
        Formula(<<"Y","2">>,
                CallText(sOr, <<CallText(sNot, <<<<"C">>>>), <<"C">>>>)))

\* Y1 = B
PlainDef == Def(<<<<"B">>>>, <<"Y","1">>, Formula(<<"Y","1">>, <<"B">>))

\* Or(B,C) with no "Y1 =" before it
NoEqualsDef ==
    Def(<<<<"B">>, <<"C">>>>, <<"Y","1">>, CallText(sOr, <<<<"B">>, <<"C">>>>))

LogicDefs ==
    {DefaultDef, OrDef, NotDef, UndeclaredDef, LoopVarDef, LowerCaseDef,
     NestedDef, PlainDef, NoEqualsDef}

TimingDefs == {OrDef, NotDef}

\* Line 27: the delay widget's max_value.
MaxDelay == 5

C11 == <<"C","1","1">>
C12 == <<"C","1","2">>
C13 == <<"C","1","3">>
C21 == <<"C","2","1">>
SC1 == <<"S","C","1">>
SC2 == <<"S","C","2">>

\* One component; two components in one sub-circuit, under two names or
\* one; two sub-circuits of one component each, under two names or one.
FormsOver(defs, delays) ==
    {<<SubCircuit(SC1, <<Entry(C11, d, t)>>)>> : d \in defs, t \in delays}
    \cup
    {<<SubCircuit(SC1, <<Entry(C11, d1, t1), Entry(n2, d2, t2)>>)>> :
        d1 \in defs, d2 \in defs, t1 \in delays, t2 \in delays, n2 \in {C11, C12}}
    \cup
    {<<SubCircuit(SC1, <<Entry(C11, d1, t1)>>), SubCircuit(s2, <<Entry(C21, d2, t2)>>)>> :
        d1 \in defs, d2 \in defs, t1 \in delays, t2 \in delays, s2 \in {SC1, SC2}}

\* Three components over pairwise different inputs: Y1 = And(B,C,D),
\* Y2 = And(E,F,G) and Y3 = Or(...) over the inputs third.
WideDef(out, fn, ins) == Def(ins, out, Formula(out, CallText(fn, ins)))

WideForm(third) ==
    <<SubCircuit(SC1,
        <<Entry(C11, WideDef(<<"Y","1">>, sAnd, <<<<"B">>, <<"C">>, <<"D">>>>), 0),
          Entry(C12, WideDef(<<"Y","2">>, sAnd, <<<<"E">>, <<"F">>, <<"G">>>>), 1),
          Entry(C13, WideDef(<<"Y","3">>, sOr, third), 2)>>)>>

WideForms ==
    {WideForm(<<<<"H">>, <<"I">>>>), WideForm(<<<<"H">>, <<"I">>, <<"J">>>>)}

Forms ==
    FormsOver(LogicDefs, {0}) \cup FormsOver(TimingDefs, 0..MaxDelay) \cup WideForms

(***************************************************************************)
(* The iteration orders of the set all_vars.  Every order of up to         *)
(* MaxPermVars names is taken; of more names, the rotations of one order.  *)
(***************************************************************************)
MaxPermVars == 5

RECURSIVE Perms(_)
Perms(S) ==
    IF S = {} THEN {<<>>}
    ELSE UNION {{<<x>> \o q : q \in Perms(S \ {x})} : x \in S}

Rotations(q) ==
    {SubSeq(q, n, Len(q)) \o SubSeq(q, 1, n - 1) : n \in 1..Len(q)}

Orders(S) ==
    IF Cardinality(S) <= MaxPermVars THEN Perms(S) ELSE Rotations(SortNames(S))

(***************************************************************************)
(* The script, top to bottom                                               *)
(***************************************************************************)
Blank ==
    /\ subcircuits = <<>>
    /\ full_circuit_expr = <<>>
    /\ all_vars = {}
    /\ var_map = <<>>
    /\ expr_strs = <<>>
    /\ evaluated_exprs = <<>>
    /\ temporal_info = <<>>
    /\ circuit_logic = NoneVal
    /\ simplified = NoneVal
    /\ sat = NoSat
    /\ sim_table = <<>>
    /\ counter = 0
    /\ node_explanations = <<>>
    /\ builds = <<>>
    /\ shown = {}
    /\ error = NoError

Init ==
    /\ form \in Forms
    /\ pc = "form"
    /\ Blank

\* Lines 17-29.
DefineSubCircuits ==
    /\ pc = "form"
    /\ subcircuits' = SubCircuitsDict(form, <<>>)
    /\ pc' = "defined"
    /\ UNCHANGED <<form, full_circuit_expr, all_vars, var_map, expr_strs,
                   evaluated_exprs, temporal_info, circuit_logic, simplified, sat,
                   sim_table, counter, node_explanations, builds, shown, error>>

\* Lines 44-50.  Line 47 is outside the try: a formula without "=" ends the
\* script with an IndexError.
ComposeExpression ==
    /\ pc = "defined"
    /\ LET comps == CompsOf(subcircuits)
       IN  IF \A n \in DOMAIN comps : HasRhs(comps[n].expr)
           THEN /\ full_circuit_expr' =
                       Join(<<" ","&"," ">>, [n \in DOMAIN comps |-> Rhs(comps[n].expr)])
                /\ pc' = "composed"
                /\ error' = error
           ELSE /\ full_circuit_expr' = full_circuit_expr
                /\ pc' = "crashed"
                /\ error' = [kind |-> "IndexError", stage |-> "composition"]
    /\ UNCHANGED <<form, subcircuits, all_vars, var_map, expr_strs,
                   evaluated_exprs, temporal_info, circuit_logic, simplified, sat,
                   sim_table, counter, node_explanations, builds, shown>>

\* Lines 56-147.
Verify ==
    /\ pc = "composed"
    /\ \E keys \in Orders(AllVars(CompsOf(subcircuits))) :
         \E r \in {Run(form, subcircuits, keys)} :
             /\ all_vars' = r.all_vars
             /\ var_map' = r.var_map
             /\ expr_strs' = r.expr_strs
             /\ evaluated_exprs' = r.evaluated_exprs
             /\ temporal_info' = r.temporal_info
             /\ circuit_logic' = r.circuit_logic
             /\ simplified' = r.simplified
             /\ sat' = r.sat
             /\ sim_table' = r.sim_table
             /\ counter' = r.counter
             /\ node_explanations' = r.node_explanations
             /\ builds' = r.builds
             /\ shown' = r.shown
             /\ error' = r.error
    /\ pc' = "done"
    /\ UNCHANGED <<form, subcircuits, full_circuit_expr>>

Next == DefineSubCircuits \/ ComposeExpression \/ Verify

Spec == Init /\ [][Next]_vars

(***************************************************************************)
(* build_proof_tree_clickable as a function of its own: the def of line    *)
(* 117 creates the default counter=[0] once, and each call with only the   *)
(* expression argument works on that cell.  Running the script again       *)
(* executes lines 105 and 117 again.                                       *)
(***************************************************************************)
Leaves == {Var(<<"B">>), Var(<<"C">>), Var(<<"D">>)}

\* The expressions sympy builds from one or two of the expressions of S.
Built(S) ==
    S \cup {SymNot(x) : x \in S}
      \cup {SymAnd(<<x, y>>) : x \in S, y \in S}
      \cup {SymOr(<<x, y>>) : x \in S, y \in S}

Trees == Built(Built(Leaves))

\* The calls made after one def.
MaxCalls == 2

InitTree ==
    /\ form = <<>>
    /\ pc = "tree"
    /\ subcircuits = <<>>
    /\ full_circuit_expr = <<>>
    /\ all_vars = {}
    /\ var_map = <<>>
    /\ expr_strs = <<>>
    /\ evaluated_exprs = <<>>
    /\ temporal_info = <<>>
    /\ circuit_logic \in Trees
    /\ simplified = NoneVal
    /\ sat = NoSat
    /\ sim_table = <<>>
    /\ counter = 0
    /\ node_explanations = <<>>
    /\ builds = <<>>
    /\ shown = {}
    /\ error = NoError

\* dot = build_proof_tree_clickable(circuit_logic), as at line 135.
CallProofTree ==
    /\ pc = "tree"
    /\ Len(builds) < MaxCalls
    /\ \E tree \in {CallBuild(circuit_logic, counter, node_explanations)} :
         /\ counter' = tree.counter
         /\ node_explanations' = tree.explanations
         /\ builds' = Append(builds, [nodes |-> tree.nodes, edges |-> tree.edges])
    /\ UNCHANGED <<form, pc, subcircuits, full_circuit_expr, all_vars, var_map,
                   expr_strs, evaluated_exprs, temporal_info, circuit_logic,
                   simplified, sat, sim_table, shown, error>>

\* Lines 105 and 117 executed again: node_explanations = {} and a new
\* function object with a new default counter.
RedefineProofTree ==
    /\ pc = "tree"
    /\ builds # <<>>
    /\ counter' = 0
    /\ node_explanations' = <<>>
    /\ builds' = <<>>
    /\ UNCHANGED <<form, pc, subcircuits, full_circuit_expr, all_vars, var_map,
                   expr_strs, evaluated_exprs, temporal_info, circuit_logic,
                   simplified, sat, sim_table, shown, error>>

NextTree == CallProofTree \/ RedefineProofTree

SpecTree == InitTree /\ [][NextTree]_vars

(***************************************************************************)
(* The claims.  Components are those of the circuit model, in the order    *)
(* the script meets them.                                                  *)
(***************************************************************************)
Components == CompsOf(subcircuits)

Outputs == {Components[n].output : n \in DOMAIN Components}

\* The row of an output of delay d: 0 before step d and 1 from step d on
\* (step t is index t + 1).
ReferenceRow(d) == [n \in 1..t_steps |-> IF d <= n - 1 THEN 1 ELSE 0]

ZeroRow == [n \in 1..t_steps |-> 0]

\* One row of length t_steps per variable of the universe.
TableShape ==
    /\ DOMAIN sim_table = all_vars
    /\ \A x \in all_vars : DOMAIN sim_table[x] = 1..t_steps

\* The delay of the last component, in encounter order, whose output is x.
LastDelay(x) ==
    LET last == CHOOSE n \in DOMAIN Components :
                    /\ Components[n].output = x
                    /\ \A m \in DOMAIN Components : Components[m].output = x => m <= n
    IN  Components[last].delay

\* C1 as stated: the simulation table has one row of length 3 per variable;
\* the row of a variable that is the output of a component with delay d is
\* 0 before step d and 1 from step d on, for every such component; the row
\* of a variable that is no component's output is all 0.
C1_RowOfEveryDelay ==
    "sim_table" \in shown =>
        /\ TableShape
        /\ \A n \in DOMAIN Components :
               sim_table[Components[n].output] = ReferenceRow(Components[n].delay)
        /\ \A x \in all_vars \ Outputs : sim_table[x] = ZeroRow

\* C1 as amended: the simulation table has one row of length 3 per variable;
\* the row of an output is 0 before step d and 1 from step d on, where d is
\* the delay of the last component in encounter order that has this output;
\* the row of a variable that is no component's output is all 0.
C1_RowOfLastDelay ==
    "sim_table" \in shown =>
        /\ TableShape
        /\ \A x \in Outputs : sim_table[x] = ReferenceRow(LastDelay(x))
        /\ \A x \in all_vars \ Outputs : sim_table[x] = ZeroRow

\* A table is shown for two components that share an output and differ in
\* delay, and the row rises at the second one's delay.
C1_SharedOutputShown ==
    /\ "sim_table" \in shown
    /\ \E m \in DOMAIN Components : \E n \in DOMAIN Components :
         /\ m < n
         /\ Components[m].output = Components[n].output
         /\ Components[m].delay = 0
         /\ Components[n].delay = 2
         /\ sim_table[Components[n].output] = <<0, 0, 1>>

(***************************************************************************)
(* Binding, as the claims describe it: the formula's own syntax tree with  *)
(* every identifier read as the variable of that name.                     *)
(***************************************************************************)
Universe == AllVars(Components)

\* The identifier tokens of a text.
NameTokens(text) ==
    {t.text : t \in {x \in Range(Tokenize(text, 1)) : x.type = "NAME"}}

\* Var | And(Expr, Expr, ...) | Or(Expr, Expr, ...) | Not(Expr) over names.
RECURSIVE WellFormed(_, _)
WellFormed(a, names) ==
    IF a.node = "Name" THEN a.id \in names
    ELSE /\ a.node = "Call"
         /\ a.args[1].node = "Name"
         /\ a.args[1].id \in ConstructorNames
         /\ IF a.args[1].id = sNot THEN Len(a.args) = 2 ELSE Len(a.args) >= 3
         /\ \A n \in 2..Len(a.args) : WellFormed(a.args[n], names)

WellFormedFormula(comp) ==
    /\ HasRhs(comp.expr)
    /\ ParseText(Rhs(comp.expr)).ok
    /\ WellFormed(ParseText(Rhs(comp.expr)).ast, Universe)

RECURSIVE Reference(_)
Reference(a) ==
    IF a.node = "Name" THEN Var(a.id)
    ELSE LET xs == [n \in 1..(Len(a.args) - 1) |-> Reference(a.args[n + 1])]
         IN  IF a.args[1].id = sNot THEN SymNot(xs[1])
             ELSE IF a.args[1].id = sAnd THEN SymAnd(xs)
             ELSE SymOr(xs)

ReferenceBinding(comp) == Reference(ParseText(Rhs(comp.expr)).ast)

\* C2: when every formula is a well-formed And/Or/Not formula over declared
\* names, binding raises no error and each bound expression is the formula
\* with every identifier replaced by the variable of that name.
C2_WellFormedFormulasBind ==
    (pc = "done" /\ \A n \in DOMAIN Components : WellFormedFormula(Components[n])) =>
        /\ error.stage # "bind"
        /\ Len(evaluated_exprs) = Len(Components)
        /\ \A n \in DOMAIN evaluated_exprs :
               evaluated_exprs[n] = ReferenceBinding(Components[n])

\* The identifiers of a formula that are neither operators nor declared.
Undeclared(comp) ==
    NameTokens(Rhs(comp.expr)) \ (Universe \cup ConstructorNames)

\* C5: when some formula holds an identifier that is not in the variable
\* universe, the run ends with an error raised while binding and renders no
\* simplified expression, verdict, table or proof tree.
C5_UndeclaredIdentifierFails ==
    (pc = "done" /\ \E n \in DOMAIN Components : Undeclared(Components[n]) # {}) =>
        /\ error.stage = "bind"
        /\ shown = {}

\* Two sub-circuits of one name, or two components of one name in one
\* sub-circuit, among the entries of the form.
DuplicateNames(f) ==
    \/ \E i \in DOMAIN f : \E j \in DOMAIN f : i < j /\ f[i].sc_name = f[j].sc_name
    \/ \E i \in DOMAIN f : \E m \in DOMAIN f[i].comps : \E n \in DOMAIN f[i].comps :
           m < n /\ f[i].comps[m].comp_name = f[i].comps[n].comp_name

\* C6: when two entries share a name, building the circuit model ends with
\* an error, and nothing is composed and nothing is analysed.
C6_DuplicateNameFails ==
    (DuplicateNames(form) /\ pc # "form") =>
        /\ error # NoError
        /\ full_circuit_expr = <<>>
        /\ circuit_logic = NoneVal
        /\ shown = {}

\* C10: the text handed to eval for each formula is the same under every
\* order of substitution: it is the text the sorted order gives.
C10_SubstitutionOrderIrrelevant ==
    (pc = "done" /\ error.stage # "symbols") =>
        \A n \in DOMAIN expr_strs :
            expr_strs[n] = ExprStr(Components[n], SortNames(all_vars))

(***************************************************************************)
(* The analysis                                                            *)
(***************************************************************************)
\* The assignment a reported model stands for: the names it maps to true.
ModelAssignment == {k.name : k \in {x \in DOMAIN sat.model : sat.model[x]}}

BoundAtoms == UNION {Atoms(evaluated_exprs[n]) : n \in DOMAIN evaluated_exprs}

\* C3: when the verdict is satisfiable, the reported assignment makes every
\* component's bound expression true; when it is NOT satisfiable, no
\* assignment of the expressions' variables makes all of them true.
C3_VerdictSoundAndComplete ==
    "sat" \in shown =>
        IF Truthy(sat)
        THEN \A n \in DOMAIN evaluated_exprs : Holds(evaluated_exprs[n], ModelAssignment)
        ELSE \A m \in SUBSET BoundAtoms :
                 \E n \in DOMAIN evaluated_exprs : ~Holds(evaluated_exprs[n], m)

\* NOT satisfiable is reported for two components of which each alone can
\* be made true.
C3_UnsatisfiableReported ==
    /\ "sat" \in shown
    /\ ~Truthy(sat)
    /\ Len(evaluated_exprs) = 2
    /\ \A n \in DOMAIN evaluated_exprs :
           \E m \in SUBSET BoundAtoms : Holds(evaluated_exprs[n], m)

\* C4: the simplified expression is a disjunction of conjunctions of
\* literals, and it has the truth value of the composed expression under
\* every assignment of their variables.
C4_SimplifiedIsEquivalentDNF ==
    "simplified" \in shown =>
        /\ is_dnf(simplified)
        /\ \A m \in SUBSET (Atoms(circuit_logic) \cup Atoms(simplified)) :
               Holds(circuit_logic, m) = Holds(simplified, m)

(***************************************************************************)
(* The proof tree.  A node of an expression is the path of argument        *)
(* positions that leads to it; pre-order puts a node before its            *)
(* descendants and the arguments in their order.                           *)
(***************************************************************************)
RECURSIVE Paths(_)
Paths(e) ==
    {<<>>} \cup UNION {{<<n>> \o p : p \in Paths(e.args[n])} : n \in DOMAIN e.args}

RECURSIVE SubAt(_, _)
SubAt(e, p) == IF p = <<>> THEN e ELSE SubAt(e.args[Head(p)], Tail(p))

RECURSIVE Before(_, _)
Before(p, q) ==
    IF p = <<>> THEN q # <<>>
    ELSE IF q = <<>> THEN FALSE
    ELSE IF Head(p) = Head(q) THEN Before(Tail(p), Tail(q))
    ELSE Head(p) < Head(q)

PreOrderIndex(e, p) == Cardinality({q \in Paths(e) : Before(q, p)})

IdAt(e, p) == NodeId(PreOrderIndex(e, p))

ParentOf(p) == SubSeq(p, 1, Len(p) - 1)

\* C8: every call of build_proof_tree_clickable on the expression returns
\* the tree the first call returned, ids, labels, explanations and edges,
\* and its root is n0.
C8_RepeatedCallsSameTree ==
    \A i \in DOMAIN builds :
        /\ builds[i] = builds[1]
        /\ builds[i].nodes[1].id = NodeId(0)

\* C9: the tree of the first call after the def has one node per node of
\* the expression, with ids n0, n1, ... in pre-order and the node's
\* expression for label, and one edge to every node but the root, from the
\* node of its parent.
C9_TreeIsomorphicToExpression ==
    builds # <<>> =>
        /\ Len(builds[1].nodes) = Cardinality(Paths(circuit_logic))
        /\ \A p \in Paths(circuit_logic) :
               /\ builds[1].nodes[PreOrderIndex(circuit_logic, p) + 1].id
                      = IdAt(circuit_logic, p)
               /\ builds[1].nodes[PreOrderIndex(circuit_logic, p) + 1].label
                      = StrExpr(SubAt(circuit_logic, p))
        /\ \A i \in DOMAIN builds[1].nodes : \A j \in DOMAIN builds[1].nodes :
               i # j => builds[1].nodes[i].id # builds[1].nodes[j].id
        /\ Range(builds[1].edges) =
               {<<IdAt(circuit_logic, ParentOf(p)), IdAt(circuit_logic, p)>> :
                    p \in Paths(circuit_logic) \ {<<>>}}
        /\ Len(builds[1].edges) = Cardinality(Paths(circuit_logic)) - 1

\* The tree of an And over a Not and an Or has been built: six nodes.
C9_NestedTreeBuilt ==
    /\ builds # <<>>
    /\ circuit_logic.kind = "And"
    /\ \E n \in DOMAIN circuit_logic.args : circuit_logic.args[n].kind = "Not"
    /\ \E n \in DOMAIN circuit_logic.args : circuit_logic.args[n].kind = "Or"
    /\ Len(builds[1].nodes) = 6
    /\ Len(builds[1].edges) = 5

====
